---- MODULE Spec2Model ----
(***************************************************************************)
(* Leaf disease detection backend: upload admission and artifact           *)
(* derivation (routes/upload.ts, services/uploadService.ts), the           *)
(* detection lifecycle driven by POST /process/:detectionId, the seed      *)
(* script, and the disease service.  Every `await` of a handler is one     *)
(* step, so concurrent requests interleave exactly where the event loop    *)
(* lets them.  Confidences are in hundredths (0.85 is 85); timestamps are  *)
(* ticks of the clock `now`.                                               *)
(***************************************************************************)
EXTENDS Integers, Sequences, FiniteSets, TLC

\* ------------------------------------------------------------------ bounds
MaxUploads == 1      \* upload requests handled in one behaviour
MaxProcess == 2      \* process requests handled in one behaviour
MaxClock == 1        \* ticks of the wall clock
MaxBatch == 2        \* upload requests handled concurrently in one batch
MaxDiseases == 4     \* rows of "diseases" up to which the service inserts directly
MaxAuth == 2         \* AuthService calls handled in one behaviour
MaxRows == 2         \* rows of "diseases" while the reporting functions are checked

UploadIds == 1..MaxUploads
AuthIds == 1..MaxAuth
ProcessIds == 1..MaxProcess

\* --------------------------------------------------------------- constants
Null == -1           \* a nullable column that is not set / no response yet

MAX_FILE_SIZE == 10 * 1024 * 1024
ALLOWED_MIME_TYPES == {"image/jpeg", "image/jpg", "image/png", "image/webp"}

\* users created by the seed script that issue requests
Users == {"user", "researcher"}

\* declared content types and byte lengths an upload may carry
MimeTypes == {"image/jpeg", "image/gif", ""}
FileSizes == {0, MAX_FILE_SIZE, MAX_FILE_SIZE + 1}

Variants == {"original", "processed", "thumbnails"}

\* ------------------------------------------------------------------- state
VARIABLES
  detections,   \* table "detections": sequence of rows, a row's id is its index
  diseases,     \* table "diseases": sequence of rows, a row's id is its index
  files,        \* uploads/ directory: set of <<userId, variant, submission id>>
  up,           \* upload requests, by slot
  proc,         \* process requests, by slot
  seeded,       \* the seed script has run
  now,          \* wall clock
  query,        \* the read request (status lookup or history) being served
  users,        \* table "users": sequence of rows, a row's id is its index
  auth          \* AuthService calls, by slot

vars == <<detections, diseases, files, up, proc, seeded, now, query, users, auth>>

\* ------------------------------------------------- services/uploadService.ts
\* validateFileType (uploadService.ts)
validateFileType(mimetype) == mimetype \in ALLOWED_MIME_TYPES

\* validateFileSize (uploadService.ts): no lower bound
validateFileSize(size) == size <= MAX_FILE_SIZE

\* validateFileSize of the S3-enabled upload service (second copy)
validateFileSizeS3(size) == size > 0 /\ size <= MAX_FILE_SIZE

\* fileFilter that lets every declared type through
fileFilterAny(mimetype) == TRUE

\* fileFilter handed to multer
fileFilter(mimetype) == mimetype \in ALLOWED_MIME_TYPES

\* multer's limits.fileSize: the stream is cut off beyond MAX_FILE_SIZE bytes
withinFileSizeLimit(size) == size <= MAX_FILE_SIZE

\* sharp cannot decode an empty input; any other input may or may not decode
sharpOutcomes(size) == IF size = 0 THEN {FALSE} ELSE {TRUE, FALSE}

\* one name for every request
submissionIdShared(u) == 1

\* the submission id of upload request u: a fresh uuidv4() per request, which
\* names the original and, through req.detectionId, both derived variants
submissionId(u) == u

\* ---------------------------------------------------------------- requests
IdleUpload ==
  [pc |-> "idle", userId |-> "", hasFile |-> FALSE, mimetype |-> "", size |-> 0,
   res |-> Null, detectionId |-> Null]

IdleProcess ==
  [pc |-> "idle", userId |-> "", detectionId |-> Null, t1 |-> <<>>, t2 |-> <<>>,
   todo |-> {}, res |-> Null]

\* no read request is being served
IdleQuery == [kind |-> "none"]

\* an AuthService call that has not started
IdleAuth ==
  [pc |-> "idle", op |-> "", userId |-> Null, email |-> "", res |-> "", logged |-> ""]

\* the accounts of the seed script that issue requests
seedUsers ==
  << [id |-> 1, email |-> "user@example.com"],
     [id |-> 2, email |-> "researcher@example.com"] >>

Init ==
  /\ detections = <<>>
  /\ diseases = <<>>
  /\ files = {}
  /\ up = [u \in UploadIds |-> IdleUpload]
  /\ proc = [r \in ProcessIds |-> IdleProcess]
  /\ seeded = FALSE
  /\ now = 0
  /\ query = IdleQuery
  /\ users = seedUsers
  /\ auth = [a \in AuthIds |-> IdleAuth]

\* the clock advances
Tick ==
  /\ now < MaxClock
  /\ now' = now + 1
  /\ UNCHANGED <<detections, diseases, files, up, proc, seeded, query, users, auth>>

\* ------------------------------------------------------- POST /upload/image
\* upload.single('image'): without a file part the handler answers 400; multer
\* runs fileFilter before anything is stored and hands its error to the error
\* middleware (500); otherwise the disk storage opens
\* uploads/<user>/original/<uuid><ext> and streams the file into it.  The
\* submission id (uuid) of slot u is u.
UploadMulter(u) ==
  /\ up[u].pc = "idle"
  /\ \A v \in DOMAIN up : v < u => up[v].pc # "idle"
  /\ \E userId \in Users, hasFile \in BOOLEAN, mimetype \in MimeTypes, size \in FileSizes :
       /\ hasFile \/ (mimetype = "" /\ size = 0)
       /\ LET req == [up[u] EXCEPT !.userId = userId, !.hasFile = hasFile,
                                    !.mimetype = mimetype, !.size = size]
          IN  IF ~hasFile
                THEN /\ up' = [up EXCEPT ![u] = [req EXCEPT !.pc = "done", !.res = 400]]
                     /\ files' = files
              ELSE IF ~fileFilter(mimetype)
                THEN /\ up' = [up EXCEPT ![u] = [req EXCEPT !.pc = "done", !.res = 500]]
                     /\ files' = files
              ELSE /\ up' = [up EXCEPT ![u] = [req EXCEPT !.pc =
                            IF withinFileSizeLimit(size) THEN "processImage" ELSE "limit"]]
                   /\ files' = files \cup {<<userId, "original", submissionId(u)>>}
  /\ UNCHANGED <<detections, diseases, proc, seeded, now, query, users, auth>>

\* the stream passed limits.fileSize: multer removes the file it was writing
\* and hands LIMIT_FILE_SIZE to the error middleware (500)
UploadLimit(u) ==
  /\ up[u].pc = "limit"
  /\ files' = files \ {<<up[u].userId, "original", submissionId(u)>>}
  /\ up' = [up EXCEPT ![u].pc = "done", ![u].res = 500]
  /\ UNCHANGED <<detections, diseases, proc, seeded, now, query, users, auth>>

\* await processImage(req.file.path, processedPath)
UploadProcessImage(u) ==
  /\ up[u].pc = "processImage"
  /\ \E ok \in sharpOutcomes(up[u].size) :
       IF ok
         THEN /\ files' = files \cup {<<up[u].userId, "processed", submissionId(u)>>}
              /\ up' = [up EXCEPT ![u].pc = "createThumbnail"]
         ELSE /\ files' = files
              /\ up' = [up EXCEPT ![u].pc = "done", ![u].res = 500]
  /\ UNCHANGED <<detections, diseases, proc, seeded, now, query, users, auth>>

\* await createThumbnail(req.file.path, thumbnailPath)
UploadCreateThumbnail(u) ==
  /\ up[u].pc = "createThumbnail"
  /\ \E ok \in sharpOutcomes(up[u].size) :
       IF ok
         THEN /\ files' = files \cup {<<up[u].userId, "thumbnails", submissionId(u)>>}
              /\ up' = [up EXCEPT ![u].pc = "createDetection"]
         ELSE /\ files' = files
              /\ up' = [up EXCEPT ![u].pc = "done", ![u].res = 500]
  /\ UNCHANGED <<detections, diseases, proc, seeded, now, query, users, auth>>

\* a row inserted as already analysed
createDetectionCompleted(id, userId, imageUrl, createdAt) ==
  [id |-> id, userId |-> userId, imageUrl |-> imageUrl,
   processingStatus |-> "completed", confidenceScore |-> 85,
   processedAt |-> createdAt, createdAt |-> createdAt]

\* prisma.detection.create({data: {userId, imageUrl, originalFilename,
\* processingStatus: 'pending'}}): the other columns take their defaults
createDetection(id, userId, imageUrl, createdAt) ==
  [id |-> id, userId |-> userId, imageUrl |-> imageUrl,
   processingStatus |-> "pending", confidenceScore |-> Null,
   processedAt |-> Null, createdAt |-> createdAt]

\* await prisma.detection.create({...processingStatus: 'pending'}); res.json
UploadCreateDetection(u) ==
  /\ up[u].pc = "createDetection"
  /\ \E ok \in BOOLEAN :
       IF ok
         THEN /\ detections' = Append(detections,
                   createDetection(Len(detections) + 1, up[u].userId,
                                   submissionId(u), now))
              /\ up' = [up EXCEPT ![u].pc = "done", ![u].res = 200,
                                  ![u].detectionId = Len(detections) + 1]
         ELSE /\ detections' = detections
              /\ up' = [up EXCEPT ![u].pc = "done", ![u].res = 500]
  /\ UNCHANGED <<diseases, files, proc, seeded, now, query, users, auth>>

\* ------------------------------------------------ services/diseaseService.ts
\* String.prototype.toLowerCase / Prisma's mode: 'insensitive', on the labels
\* that occur in the repository
toLowerCase(s) ==
  CASE s = "Early Blight" -> "early blight"
    [] s = "Powdery Mildew" -> "powdery mildew"
    [] s = "Healthy" -> "healthy"
    [] s = "Bacterial_Blight" -> "bacterial_blight"
    [] s = "Rust" -> "rust"
    [] OTHER -> s

\* getDefaultTreatmentRecommendations
catchAllTreatments ==
  <<"Consult with agricultural extension service",
    "Consider professional plant pathologist consultation",
    "Monitor plant closely for changes",
    "Remove affected plant material",
    "Improve growing conditions">>

defaultTreatments ==
  [healthy |-> <<"No treatment needed", "Continue regular plant care",
                 "Monitor for early signs of disease">>,
   bacterial_blight |-> <<"Remove affected leaves immediately",
                          "Apply copper-based bactericide",
                          "Improve air circulation around plants",
                          "Avoid overhead watering">>,
   leaf_spot |-> <<"Remove infected leaves and debris", "Apply fungicide spray",
                   "Ensure proper plant spacing",
                   "Water at soil level to avoid wetting leaves">>,
   rust |-> <<"Remove affected leaves", "Apply sulfur-based fungicide",
              "Improve air circulation", "Avoid watering in evening">>,
   powdery_mildew |-> <<"Increase air circulation",
                        "Apply baking soda solution (1 tsp per quart water)",
                        "Use fungicidal spray if severe",
                        "Remove heavily infected leaves">>,
   early_blight |-> <<"Remove infected leaves and debris",
                      "Apply copper or chlorothalonil fungicide",
                      "Improve air circulation", "Avoid overhead watering",
                      "Rotate crops next season">>,
   late_blight |-> <<"Remove and destroy infected plants immediately",
                     "Apply copper-based fungicide preventively",
                     "Improve air circulation", "Avoid overhead watering",
                     "Consider resistant varieties for future planting">>]

getDefaultTreatmentRecommendations(diseaseName) ==
  IF toLowerCase(diseaseName) \in DOMAIN defaultTreatments
    THEN defaultTreatments[toLowerCase(diseaseName)]
    ELSE catchAllTreatments

\* the row of table "detections" with this id (ids are indexes)
detectionOf(table, id) == table[id]

\* getTreatmentRecommendations: the lists the query
\*   findFirst({where: diseaseName equals (insensitive),
\*              orderBy: {detection: {processedAt: 'desc'}}})
\* can return on tables (dis, dets); a NULL processedAt sorts first under
\* DESC, ties are broken arbitrarily; without a row the default list.
getTreatmentRecommendations(dis, dets, diseaseName) ==
  LET matching == {i \in DOMAIN dis :
                     toLowerCase(dis[i].diseaseName) = toLowerCase(diseaseName)}
      key(i) == LET p == detectionOf(dets, dis[i].detectionId).processedAt
                IN  IF p = Null THEN MaxClock + 1 ELSE p
      first == {i \in matching : \A j \in matching : key(j) <= key(i)}
  IN  IF matching = {}
        THEN {getDefaultTreatmentRecommendations(diseaseName)}
        ELSE {dis[i].treatmentRecommendations : i \in first}

\* createDisease: one INSERT into "diseases"
createDisease(dis, detectionId, diseaseName, confidence, treatmentRecommendations) ==
  Append(dis, [id |-> Len(dis) + 1, detectionId |-> detectionId,
               diseaseName |-> diseaseName, confidence |-> confidence,
               treatmentRecommendations |-> treatmentRecommendations])

\* ------------------------------------------------------------ scripts/seed.ts
\* imageUrl of the n-th sample leaf ('/uploads/sample-leaf-<n>.jpg')
sampleLeaf(n) == 0 - n

\* the nested `diseases: {create: [...]}` of the n-th sample detection
sampleDiseases(n) ==
  CASE n = 1 -> << [diseaseName |-> "Early Blight", confidence |-> 85,
                    treatmentRecommendations |->
                      <<"Apply copper-based fungicide",
                        "Improve air circulation around plants",
                        "Remove affected leaves immediately">>] >>
    [] n = 2 -> << >>
    [] n = 3 -> << [diseaseName |-> "Powdery Mildew", confidence |-> 72,
                    treatmentRecommendations |->
                      <<"Apply sulfur-based fungicide",
                        "Reduce humidity around plants",
                        "Ensure proper spacing between plants">>] >>

\* the rows of a nested create, inserted in order
RECURSIVE createNested(_, _, _)
createNested(dis, detectionId, list) ==
  IF list = << >> THEN dis
  ELSE createNested(
         createDisease(dis, detectionId, Head(list).diseaseName,
                       Head(list).confidence, Head(list).treatmentRecommendations),
         detectionId, Tail(list))

seedDetection(id, userId, n, confidenceScore) ==
  [id |-> id, userId |-> userId, imageUrl |-> sampleLeaf(n),
   processingStatus |-> "completed", confidenceScore |-> confidenceScore,
   processedAt |-> now, createdAt |-> now]

\* main(): three sample detections, each created with its nested diseases,
\* run against a database that holds no detection yet
Seed ==
  /\ ~seeded
  /\ detections = <<>>
  /\ LET n == Len(detections)
     IN  /\ detections' = detections \o
               << seedDetection(n + 1, "user", 1, 85),
                  seedDetection(n + 2, "user", 2, 95),
                  seedDetection(n + 3, "researcher", 3, 72) >>
         /\ diseases' = createNested(
                          createNested(
                            createNested(diseases, n + 1, sampleDiseases(1)),
                            n + 2, sampleDiseases(2)),
                          n + 3, sampleDiseases(3))
  /\ seeded' = TRUE
  /\ UNCHANGED <<files, up, proc, now, query, users, auth>>

\* ------------------------------------------- POST /upload/process/:detectionId
\* the simulated classifier result (treatmentRecommendations are looked up)
mockDiseases ==
  << [diseaseName |-> "bacterial_blight", confidence |-> 85],
     [diseaseName |-> "healthy", confidence |-> 15] >>

\* a handler that has answered keeps only its request and its response
Answered(req, res) ==
  [req EXCEPT !.pc = "done", !.res = res, !.t1 = <<>>, !.t2 = <<>>, !.todo = {}]

\* detection ids a request may name: every existing id and one unknown id
RequestableIds == 1..(Len(detections) + 1)

\* a lookup by id alone
findFirstAnyOwner(dets, detectionId, userId) ==
  {d \in DOMAIN dets : dets[d].id = detectionId}

\* prisma.detection.findFirst({where: {id: detectionId, userId}}): the rows
\* (at most one) with that id that belong to that user
findFirst(dets, detectionId, userId) ==
  {d \in DOMAIN dets : dets[d].id = detectionId /\ dets[d].userId = userId}

\* the request arrives; await prisma.detection.findFirst({where: {id, userId}})
\* 404 when there is no such row, 400 when it is not pending
ProcessFind(r) ==
  /\ proc[r].pc = "idle"
  /\ \A q \in DOMAIN proc : q < r => proc[q].pc # "idle"
  /\ \E userId \in Users, detectionId \in RequestableIds, ok \in BOOLEAN :
       LET req == [proc[r] EXCEPT !.userId = userId, !.detectionId = detectionId]
           found == findFirst(detections, detectionId, userId)
       IN  proc' = [proc EXCEPT ![r] =
             IF ~ok THEN Answered(req, 500)
             ELSE IF found = {} THEN Answered(req, 404)
             ELSE IF detections[detectionId].processingStatus # "pending"
               THEN Answered(req, 400)
             ELSE [req EXCEPT !.pc = "treatment1"]]
  /\ UNCHANGED <<detections, diseases, files, up, seeded, now, query, users, auth>>

\* await diseaseService.getTreatmentRecommendations('bacterial_blight')
ProcessTreatment1(r) ==
  /\ proc[r].pc = "treatment1"
  /\ \/ \E t \in getTreatmentRecommendations(diseases, detections, mockDiseases[1].diseaseName) :
          proc' = [proc EXCEPT ![r].pc = "treatment2", ![r].t1 = t]
     \/ proc' = [proc EXCEPT ![r] = Answered(proc[r], 500)]
  /\ UNCHANGED <<detections, diseases, files, up, seeded, now, query, users, auth>>

\* await diseaseService.getTreatmentRecommendations('healthy')
ProcessTreatment2(r) ==
  /\ proc[r].pc = "treatment2"
  /\ \/ \E t \in getTreatmentRecommendations(diseases, detections, mockDiseases[2].diseaseName) :
          proc' = [proc EXCEPT ![r].pc = "update", ![r].t2 = t]
     \/ proc' = [proc EXCEPT ![r] = Answered(proc[r], 500)]
  /\ UNCHANGED <<detections, diseases, files, up, seeded, now, query, users, auth>>

\* prisma.detection.update({where: {id}, data: {processingStatus: 'completed',
\*   confidenceScore: mockDiseases[0].confidence, processedAt: new Date()}})
updateDetection(row) ==
  [row EXCEPT !.processingStatus = "completed",
              !.confidenceScore = mockDiseases[1].confidence,
              !.processedAt = now]

\* await prisma.detection.update(...); then every createDisease is issued
ProcessUpdate(r) ==
  /\ proc[r].pc = "update"
  /\ \/ /\ detections' = [detections EXCEPT ![proc[r].detectionId] = updateDetection(@)]
        /\ proc' = [proc EXCEPT ![r].pc = "createDisease",
                                ![r].todo = DOMAIN mockDiseases]
     \/ /\ detections' = detections
        /\ proc' = [proc EXCEPT ![r] = Answered(proc[r], 500)]
  /\ UNCHANGED <<diseases, files, up, seeded, now, query, users, auth>>

\* one of the inserts of Promise.all(mockDiseases.map(createDisease)) settles:
\* the first rejection answers 500 while the other inserts stay in flight;
\* when all have resolved the handler answers 200
ProcessCreateDisease(r) ==
  /\ proc[r].pc = "createDisease"
  /\ \E i \in proc[r].todo, ok \in BOOLEAN :
       LET rest == proc[r].todo \ {i}
           res == IF proc[r].res # Null THEN proc[r].res
                  ELSE IF ~ok THEN 500
                  ELSE IF rest = {} THEN 200
                  ELSE Null
           t == IF i = 1 THEN proc[r].t1 ELSE proc[r].t2
       IN  /\ diseases' = IF ok
                THEN createDisease(diseases, proc[r].detectionId,
                       mockDiseases[i].diseaseName, mockDiseases[i].confidence, t)
                ELSE diseases
           /\ proc' = [proc EXCEPT ![r] =
                IF rest = {} THEN Answered(proc[r], res)
                ELSE [proc[r] EXCEPT !.todo = rest, !.res = res]]
  /\ UNCHANGED <<detections, files, up, seeded, now, query, users, auth>>

Next ==
  \/ Tick
  \/ \E u \in UploadIds : UploadMulter(u)
  \/ \E u \in UploadIds : UploadLimit(u)
  \/ \E u \in UploadIds : UploadProcessImage(u)
  \/ \E u \in UploadIds : UploadCreateThumbnail(u)
  \/ \E u \in UploadIds : UploadCreateDetection(u)
  \/ Seed
  \/ \E r \in ProcessIds : ProcessFind(r)
  \/ \E r \in ProcessIds : ProcessTreatment1(r)
  \/ \E r \in ProcessIds : ProcessTreatment2(r)
  \/ \E r \in ProcessIds : ProcessUpdate(r)
  \/ \E r \in ProcessIds : ProcessCreateDisease(r)

Spec == Init /\ [][Next]_vars

\* ------------------------------------------- GET /upload/status/:detectionId
\* include: {diseases: true}: a detection row with its disease rows nested
withDiseases(row) ==
  [detection |-> row,
   diseases |-> SelectSeq(diseases, LAMBDA x : x.detectionId = row.id)]

\* await prisma.detection.findFirst({where: {id, userId}, include: {diseases}})
\* 404 without such a row, otherwise the row and its diseases
StatusLookup ==
  /\ query.kind = "none"
  /\ \E userId \in Users, detectionId \in RequestableIds, ok \in BOOLEAN :
       LET found == findFirst(detections, detectionId, userId)
           req == [kind |-> "status", userId |-> userId, detectionId |-> detectionId]
       IN  query' =
             IF ~ok THEN req @@ [res |-> 500, body |-> << >>]
             ELSE IF found = {} THEN req @@ [res |-> 404, body |-> << >>]
             ELSE req @@ [res |-> 200,
                          body |-> << withDiseases(detections[detectionId]) >>]
  /\ UNCHANGED <<detections, diseases, files, up, proc, seeded, now, users, auth>>

\* ------------------------------------------------------- GET /upload/history
\* query parameters a history request may carry ("" and Null: not supplied)
HistoryPages == {1, 2}
HistoryLimits == {1, 2}
HistoryStatuses == {"", "completed"}
HistoryDatesFrom == {Null, 1}
HistoryDatesTo == {Null, 0}

\* a `where` object that lacks the owner
historyWhereAnyOwner(row, q) ==
  /\ q.status # "" => row.processingStatus = q.status
  /\ q.dateFrom # Null => row.createdAt >= q.dateFrom
  /\ q.dateTo # Null => row.createdAt <= q.dateTo

\* the `where` object built from the query: owner, status, createdAt range
historyWhere(row, q) ==
  /\ row.userId = q.userId
  /\ q.status # "" => row.processingStatus = q.status
  /\ q.dateFrom # Null => row.createdAt >= q.dateFrom
  /\ q.dateTo # Null => row.createdAt <= q.dateTo

\* orderBy: {createdAt: 'desc'}: every order of the rows S the database may
\* produce; rows with equal createdAt come in any order
RECURSIVE orderByCreatedAtDesc(_)
orderByCreatedAtDesc(S) ==
  IF S = {} THEN { << >> }
  ELSE UNION { { << detections[d] >> \o rest : rest \in orderByCreatedAtDesc(S \ {d}) } :
               d \in {e \in S : \A f \in S : detections[f].createdAt <= detections[e].createdAt} }

\* take without skip
skipTakeFirstPage(rows, skip, take) ==
  SubSeq(rows, 1, IF take < Len(rows) THEN take ELSE Len(rows))

\* skip / take
skipTake(rows, skip, take) ==
  SubSeq(rows, skip + 1, IF skip + take < Len(rows) THEN skip + take ELSE Len(rows))

\* prisma.detection.findMany({where, include, orderBy, skip, take}): the pages
\* the database may return
findMany(q) ==
  { skipTake(rows, (q.page - 1) * q.limit, q.limit) :
      rows \in orderByCreatedAtDesc({d \in DOMAIN detections : historyWhere(detections[d], q)}) }

\* prisma.detection.count({where})
count(q) == Cardinality({d \in DOMAIN detections : historyWhere(detections[d], q)})

\* pages: Math.ceil(totalCount / limitNum)
pagesOf(total, limit) == (total + limit - 1) \div limit

\* the request arrives and the first of the two queries of
\* Promise.all([findMany, count]) runs
HistoryBegin ==
  /\ query.kind = "none"
  /\ \E userId \in Users, page \in HistoryPages, limit \in HistoryLimits,
        status \in HistoryStatuses, dateFrom \in HistoryDatesFrom,
        dateTo \in HistoryDatesTo, ok \in BOOLEAN :
       LET q == [kind |-> "history", userId |-> userId, page |-> page, limit |-> limit,
                 status |-> status, dateFrom |-> dateFrom, dateTo |-> dateTo,
                 pc |-> "both", res |-> Null, detections |-> << >>, total |-> Null]
       IN  \/ ~ok /\ query' = [q EXCEPT !.pc = "done", !.res = 500]
           \/ ok /\ \E rows \in findMany(q) :
                      query' = [q EXCEPT !.pc = "count", !.detections = rows]
           \/ ok /\ query' = [q EXCEPT !.pc = "findMany", !.total = count(q)]
  /\ UNCHANGED <<detections, diseases, files, up, proc, seeded, now, users, auth>>

\* the other query runs and res.json answers with the page and the total
HistoryEnd ==
  /\ query.kind = "history"
  /\ query.pc \in {"count", "findMany"}
  /\ \E ok \in BOOLEAN :
       \/ ~ok /\ query' = [query EXCEPT !.pc = "done", !.res = 500,
                                        !.detections = << >>, !.total = Null]
       \/ ok /\ query.pc = "count"
             /\ query' = [query EXCEPT !.pc = "done", !.res = 200, !.total = count(query)]
       \/ ok /\ query.pc = "findMany"
             /\ \E rows \in findMany(query) :
                  query' = [query EXCEPT !.pc = "done", !.res = 200, !.detections = rows]
  /\ UNCHANGED <<detections, diseases, files, up, proc, seeded, now, users, auth>>

\* the backend serving one read request while one upload request and one
\* process request write
QueryUploadIds == {1}
QueryProcessIds == {1}

NextQuery ==
  \/ Tick
  \/ \E u \in QueryUploadIds : UploadMulter(u)
  \/ \E u \in QueryUploadIds : UploadLimit(u)
  \/ \E u \in QueryUploadIds : UploadProcessImage(u)
  \/ \E u \in QueryUploadIds : UploadCreateThumbnail(u)
  \/ \E u \in QueryUploadIds : UploadCreateDetection(u)
  \/ Seed
  \/ \E r \in QueryProcessIds : ProcessFind(r)
  \/ \E r \in QueryProcessIds : ProcessTreatment1(r)
  \/ \E r \in QueryProcessIds : ProcessTreatment2(r)
  \/ \E r \in QueryProcessIds : ProcessUpdate(r)
  \/ \E r \in QueryProcessIds : ProcessCreateDisease(r)
  \/ StatusLookup
  \/ HistoryBegin
  \/ HistoryEnd

SpecQuery == Init /\ [][NextQuery]_vars

\* ------------------------------------------------------------------ helpers
\* ids of the Disease rows owned by detection d
rowsOf(d) == {i \in DOMAIN diseases : diseases[i].detectionId = d}

isHealthy(diseaseName) == toLowerCase(diseaseName) = "healthy"

Terminal == {"completed", "failed"}

statusRank(status) ==
  CASE status = "pending" -> 0
    [] status = "processing" -> 1
    [] status \in Terminal -> 2

\* detection threshold of the design document (70%), in hundredths
DETECTION_THRESHOLD == 70

\* a detection written by the upload handler (seeded rows carry a sample leaf)
Uploaded(d) == detections[d].imageUrl > 0

RECURSIVE maxConfidence(_)
maxConfidence(list) ==
  IF list = << >> THEN 0
  ELSE LET m == maxConfidence(Tail(list))
       IN  IF Head(list).confidence > m THEN Head(list).confidence ELSE m

\* ------------------------------------------------------------------- claims

\* C1: process called on a Detection that is not pending is rejected with a
\* conflict outcome (409) and changes neither the Detection row nor its
\* Disease rows.
C1_NonPendingIsConflict ==
  [][\A r \in ProcessIds :
       LET d == proc'[r].detectionId IN
       ( /\ proc[r].pc = "idle"
         /\ proc'[r].pc = "done"
         /\ proc'[r].res # 500
         /\ d \in DOMAIN detections
         /\ detections[d].userId = proc'[r].userId
         /\ detections[d].processingStatus # "pending" )
       => ( /\ proc'[r].res = 409
            /\ detections' = detections
            /\ diseases' = diseases )]_vars

\* C2: of the concurrent process requests on one pending Detection exactly one
\* performs the terminal transition: no two requests are past the update on
\* the same Detection, and the Detection never holds more Disease rows than
\* one completion inserts, nor two rows with the same label.
C2_SingleCompletion ==
  /\ \A r, q \in ProcessIds :
       ( /\ r # q
         /\ proc[r].pc = "createDisease"
         /\ proc[q].pc = "createDisease" )
       => proc[r].detectionId # proc[q].detectionId
  /\ \A d \in DOMAIN detections :
       Uploaded(d) =>
         /\ Cardinality(rowsOf(d)) <= Len(mockDiseases)
         /\ \A i, j \in rowsOf(d) :
              diseases[i].diseaseName = diseases[j].diseaseName => i = j

\* C3: a Detection's status never moves backward, and once it is completed or
\* failed its status, confidenceScore and processedAt never change again.
C3_MonotoneAndFrozen ==
  [][\A d \in DOMAIN detections :
       /\ statusRank(detections'[d].processingStatus)
            >= statusRank(detections[d].processingStatus)
       /\ detections[d].processingStatus \in Terminal =>
            /\ detections'[d].processingStatus = detections[d].processingStatus
            /\ detections'[d].confidenceScore = detections[d].confidenceScore
            /\ detections'[d].processedAt = detections[d].processedAt]_vars

\* C4: every Detection that reaches completed or failed was in status
\* processing immediately before; none goes from pending to a terminal status.
C4_ThroughProcessing ==
  [][\A d \in DOMAIN detections :
       ( /\ detections'[d].processingStatus \in Terminal
         /\ detections[d].processingStatus \notin Terminal )
       => detections[d].processingStatus = "processing"]_vars

\* C5: completion is atomic: in every reachable state a Detection completed by
\* process holds all the Disease rows of that completion.
C5_AtomicCompletion ==
  \A d \in DOMAIN detections :
    (Uploaded(d) /\ detections[d].processingStatus = "completed") =>
      \A k \in DOMAIN mockDiseases :
        \E i \in rowsOf(d) : diseases[i].diseaseName = mockDiseases[k].diseaseName

\* C6: when a step of process fails after the Detection was found pending, the
\* Detection ends in status failed with processedAt set.
C6_FailureMarksFailed ==
  [][\A r \in ProcessIds :
       ( /\ proc[r].pc \in {"treatment1", "treatment2", "update", "createDisease"}
         /\ proc'[r].pc = "done"
         /\ proc'[r].res = 500 )
       => ( /\ detections'[proc[r].detectionId].processingStatus = "failed"
            /\ detections'[proc[r].detectionId].processedAt # Null )]_vars

\* C7: after a successful process request the Detection has either exactly one
\* "healthy" Disease row, or one or more rows none of which is "healthy", one
\* per candidate, with confidenceScore equal to the top candidate's confidence.
C7_HealthyXorLabeled ==
  \A r \in ProcessIds :
    (proc[r].pc = "done" /\ proc[r].res = 200) =>
      LET d == proc[r].detectionId
          healthy == {i \in rowsOf(d) : isHealthy(diseases[i].diseaseName)}
      IN  \/ /\ Cardinality(rowsOf(d)) = 1
             /\ healthy = rowsOf(d)
          \/ /\ rowsOf(d) # {}
             /\ healthy = {}
             /\ detections[d].confidenceScore = maxConfidence(mockDiseases)

\* the candidate list a completed Detection was recorded from
candidatesOf(d) ==
  IF Uploaded(d) THEN mockDiseases ELSE sampleDiseases(0 - detections[d].imageUrl)

\* C8: a completed Detection whose candidate list is empty or wholly below the
\* threshold has exactly one Disease row, labelled "healthy", with confidence
\* 1 - max observed confidence (1.0 without candidates), and its
\* confidenceScore is that value.
C8_SyntheticHealthy ==
  \A d \in DOMAIN detections :
    ( /\ detections[d].processingStatus = "completed"
      /\ maxConfidence(candidatesOf(d)) < DETECTION_THRESHOLD )
    => /\ Cardinality(rowsOf(d)) = 1
       /\ \A i \in rowsOf(d) :
            /\ isHealthy(diseases[i].diseaseName)
            /\ diseases[i].confidence = 100 - maxConfidence(candidatesOf(d))
       /\ detections[d].confidenceScore = 100 - maxConfidence(candidatesOf(d))

\* C9: validateFileType is true exactly for the allow-set and validateFileSize
\* is true exactly for 0 < size <= 10 MiB, for every (contentType, length) an
\* upload carries.
C9_ValidationTotality ==
  \A u \in UploadIds :
    up[u].hasFile =>
      /\ validateFileType(up[u].mimetype) <=>
           up[u].mimetype \in {"image/jpeg", "image/jpg", "image/png", "image/webp"}
      /\ validateFileSize(up[u].size) <=>
           (0 < up[u].size /\ up[u].size <= 10 * 1024 * 1024)

\* C10: once an upload whose content type is outside the allow-set or whose
\* size exceeds the maximum has been answered, no artifact variant exists for
\* it and no Detection row has been created for it.
C10_RejectionHasNoEffect ==
  \A u \in UploadIds :
    ( /\ up[u].pc = "done"
      /\ up[u].hasFile
      /\ \/ up[u].mimetype \notin ALLOWED_MIME_TYPES
         \/ up[u].size > MAX_FILE_SIZE )
    => /\ up[u].res # 200
       /\ \A userId \in Users, variant \in Variants : <<userId, variant, u>> \notin files
       /\ \A d \in DOMAIN detections : detections[d].imageUrl # u
       /\ up[u].detectionId = Null

\* an over-long image of an allowed type has been rejected and answered
C10_Witness ==
  \E u \in UploadIds :
    /\ up[u].pc = "done"
    /\ up[u].hasFile
    /\ up[u].mimetype \in ALLOWED_MIME_TYPES
    /\ up[u].size > MAX_FILE_SIZE
    /\ up[u].res = 500

\* artifact variants stored under submission id u
variantsOf(u) == {f \in files : f[3] = u}

\* C11: once an upload whose derivation failed after some variant was written
\* has been answered, none of the three variants exists for its submission id
\* and no Detection row was created for it.
C11_CleanupComplete ==
  \A u \in UploadIds :
    ( /\ up[u].pc = "done"
      /\ up[u].hasFile
      /\ up[u].mimetype \in ALLOWED_MIME_TYPES
      /\ up[u].size <= MAX_FILE_SIZE
      /\ up[u].res = 500 )
    => /\ variantsOf(u) = {}
       /\ \A d \in DOMAIN detections : detections[d].imageUrl # u

\* the Detections of owner a that a history query with these filters selects
matchingOf(a, status, dateFrom, dateTo) ==
  {d \in DOMAIN detections :
     /\ detections[d].userId = a
     /\ (status = "" \/ detections[d].processingStatus = status)
     /\ (dateFrom = Null \/ detections[d].createdAt >= dateFrom)
     /\ (dateTo = Null \/ detections[d].createdAt <= dateTo)}

\* C12: a history query issued by owner A returns only rows owned by A, each
\* a Detection of A as stored, never a Detection of another owner, and its
\* total counts every Detection of A that matches the query.
C12_OwnerIsolation ==
  /\ [](query.kind = "history" =>
          \A i \in DOMAIN query.detections :
            query.detections[i].userId = query.userId)
  /\ [][query'.kind = "history" =>
          LET before == IF query.kind = "history" THEN query
                        ELSE [detections |-> << >>, total |-> Null]
              own == matchingOf(query'.userId, query'.status,
                                query'.dateFrom, query'.dateTo)
          IN  /\ query'.detections # before.detections =>
                   \A i \in DOMAIN query'.detections :
                     \E d \in own : query'.detections[i] = detections[d]
              /\ (query'.total # Null /\ before.total = Null) =>
                   query'.total = Cardinality(own)]_vars

\* a history query of one owner has been answered with rows and a total while
\* a Detection of the other owner lies between two of that owner's Detections
C12_Witness ==
  /\ query.kind = "history"
  /\ query.pc = "done"
  /\ query.res = 200
  /\ query.status = ""
  /\ query.dateFrom = Null
  /\ query.dateTo = Null
  /\ Len(query.detections) = 2
  /\ query.total = 3
  /\ \E i, j, k \in DOMAIN detections :
       /\ i < j /\ j < k
       /\ detections[i].userId = query.userId
       /\ detections[j].userId # query.userId
       /\ detections[k].userId = query.userId

\* no Detection with this id exists, or it belongs to another owner
NotOwned(detectionId, userId) ==
  \/ detectionId \notin DOMAIN detections
  \/ detections[detectionId].userId # userId

\* C13: the status lookup and the process operation, given an id that does not
\* exist or that belongs to another owner, answer 404 (unless the lookup query
\* itself fails, 500), return no field of the Detection, and leave the
\* Detection and Disease tables unchanged.
C13_NotFound ==
  [][/\ (query.kind = "none" /\ query'.kind = "status"
           /\ NotOwned(query'.detectionId, query'.userId)) =>
          /\ query'.res \in {404, 500}
          /\ query'.body = << >>
          /\ detections' = detections
          /\ diseases' = diseases
     /\ \A r \in QueryProcessIds :
          (proc[r].pc = "idle" /\ proc'[r].pc # "idle"
             /\ NotOwned(proc'[r].detectionId, proc'[r].userId)) =>
            /\ proc'[r].pc = "done"
            /\ proc'[r].res \in {404, 500}
            /\ detections' = detections
            /\ diseases' = diseases]_vars

\* both operations have answered 404 for a Detection that exists under
\* another owner
C13_Witness ==
  /\ query.kind = "status"
  /\ query.res = 404
  /\ query.detectionId \in DOMAIN detections
  /\ detections[query.detectionId].userId # query.userId
  /\ \E r \in QueryProcessIds :
       /\ proc[r].pc = "done"
       /\ proc[r].res = 404
       /\ proc[r].detectionId \in DOMAIN detections
       /\ detections[proc[r].detectionId].userId # proc[r].userId
       /\ detections[proc[r].detectionId].processingStatus = "pending"

\* ------------------------------------------------- a batch of uploads
\* MaxBatch upload requests arrive together on an empty store and interleave
\* at their awaits; nothing else runs
BatchIds == 1..MaxBatch

InitBatch ==
  /\ detections = <<>>
  /\ diseases = <<>>
  /\ files = {}
  /\ up = [u \in BatchIds |-> IdleUpload]
  /\ proc = [r \in ProcessIds |-> IdleProcess]
  /\ seeded = FALSE
  /\ now = 0
  /\ query = IdleQuery
  /\ users = seedUsers
  /\ auth = [a \in AuthIds |-> IdleAuth]

NextBatch ==
  \/ Tick
  \/ \E u \in BatchIds : UploadMulter(u)
  \/ \E u \in BatchIds : UploadLimit(u)
  \/ \E u \in BatchIds : UploadProcessImage(u)
  \/ \E u \in BatchIds : UploadCreateThumbnail(u)
  \/ \E u \in BatchIds : UploadCreateDetection(u)

SpecBatch == InitBatch /\ [][NextBatch]_vars

\* the Detections created for upload request u
detectionsOf(u) == {d \in DOMAIN detections : detections[d].imageUrl = u}

\* what upload request u, run alone, leaves behind once it has answered: a
\* function of its own inputs and its own answer
AloneOutcome(u) ==
  LET own(S) == {<<up[u].userId, v, u>> : v \in S}
  IN  CASE up[u].res = 200 ->
             /\ variantsOf(u) = own(Variants)
             /\ detectionsOf(u) = {up[u].detectionId}
             /\ detections[up[u].detectionId].userId = up[u].userId
             /\ detections[up[u].detectionId].processingStatus = "pending"
        [] up[u].res = 400 ->
             /\ variantsOf(u) = {}
             /\ detectionsOf(u) = {}
        [] OTHER ->
             /\ detectionsOf(u) = {}
             /\ IF ~fileFilter(up[u].mimetype) \/ ~withinFileSizeLimit(up[u].size)
                  THEN variantsOf(u) = {}
                  ELSE variantsOf(u) \in {own({"original"}), own({"original", "processed"}),
                                          own(Variants)}

\* C14: uploads handled concurrently, under every interleaving of their steps,
\* each end with the artifact variants and the Detection outcome they have when
\* run alone with the same inputs, and no step of one upload adds, overwrites
\* or deletes an artifact or a Detection of another upload.
C14_BatchIndependence ==
  /\ [](\A u \in BatchIds : up[u].pc = "done" => AloneOutcome(u))
  /\ [][\A u \in BatchIds :
          up'[u] # up[u] =>
            /\ \A v \in BatchIds \ {u} : /\ up'[v] = up[v]
                                         /\ variantsOf(v)' = variantsOf(v)
                                         /\ detectionsOf(v)' = detectionsOf(v)
            /\ \A d \in DOMAIN detections : detections'[d] = detections[d]]_vars

\* two uploads of the same owner overlapped and both succeeded, the one that
\* started second finishing first
C14_Witness ==
  /\ up[1].pc = "done" /\ up[1].res = 200
  /\ up[2].pc = "done" /\ up[2].res = 200
  /\ up[1].userId = up[2].userId
  /\ up[2].detectionId < up[1].detectionId

\* C15: the step on which an upload answers 200 inserts exactly one Detection:
\* status pending, owner the authenticated caller, no confidenceScore, no
\* processedAt, no Disease rows; the answer carries that Detection's id (with
\* the literal status 'pending'); no other Detection changes.
C15_UploadPersistsPending ==
  [][\A u \in UploadIds :
       (up[u].res = Null /\ up'[u].res = 200) =>
         /\ Len(detections') = Len(detections) + 1
         /\ \A d \in DOMAIN detections : detections'[d] = detections[d]
         /\ LET row == detections'[Len(detections')]
            IN  /\ row.processingStatus = "pending"
                /\ row.userId = up'[u].userId
                /\ row.confidenceScore = Null
                /\ row.processedAt = Null
                /\ up'[u].detectionId = row.id
                /\ row.id \notin DOMAIN detections
                /\ {i \in DOMAIN diseases' : diseases'[i].detectionId = row.id} = {}]_vars

\* an upload has just answered 200 next to the seeded Detections and its row
\* is still as inserted
C15_Witness ==
  /\ seeded
  /\ \E u \in UploadIds :
       /\ up[u].res = 200
       /\ up[u].detectionId \in DOMAIN detections
       /\ detections[up[u].detectionId].processingStatus = "pending"
       /\ detections[up[u].detectionId].userId = up[u].userId
       /\ up[u].detectionId = Len(detections)

\* the three artifact variants of Detection d are stored
hasAllVariants(table, dir, d) ==
  \A v \in Variants : <<table[d].userId, v, table[d].imageUrl>> \in dir

\* C16: a Detection row is created only after both derived variants have been
\* written, and every Detection whose status is processing, completed or
\* failed has all three artifact variants stored for it.
C16_VariantsBeforeDetection ==
  /\ [](\A d \in DOMAIN detections :
          detections[d].processingStatus \in {"processing", "completed", "failed"} =>
            hasAllVariants(detections, files, d))
  /\ [][\A d \in DOMAIN detections' :
          d \notin DOMAIN detections => hasAllVariants(detections', files', d)]_vars

\* C17: processedAt is set exactly when the status is completed or failed, is
\* never earlier than createdAt, and once set is never written again.
C17_ProcessedAtOnce ==
  /\ [](\A d \in DOMAIN detections :
          /\ detections[d].processedAt # Null <=> detections[d].processingStatus \in Terminal
          /\ detections[d].processedAt # Null =>
               detections[d].processedAt >= detections[d].createdAt)
  /\ [][\A d \in DOMAIN detections :
          detections[d].processedAt # Null =>
            detections'[d].processedAt = detections[d].processedAt]_vars

\* C18: Disease rows are created only on the step that takes their Detection
\* to completed: a Detection that is pending, processing or failed owns none,
\* and none is added to a Detection that already is completed.
C18_DiseasesOnlyOnCompletion ==
  /\ [](\A d \in DOMAIN detections :
          detections[d].processingStatus # "completed" => rowsOf(d) = {})
  /\ [][\A d \in DOMAIN detections :
          {i \in DOMAIN diseases' : diseases'[i].detectionId = d} # rowsOf(d) =>
            /\ detections[d].processingStatus # "completed"
            /\ detections'[d].processingStatus = "completed"]_vars

\* ------------------------------------- direct calls of the disease service
\* arguments a caller of the service passes
ServiceDiseaseNames == {"Bacterial_Blight"}
ServiceTreatments == {<< >>, <<"Apply fungicide">>}
ServiceConfidence == 80

\* diseaseService.createDisease(diseaseData) for an existing Detection
ServiceCreateDisease ==
  /\ Len(diseases) < MaxDiseases
  /\ \E detectionId \in DOMAIN detections, diseaseName \in ServiceDiseaseNames,
        treatments \in ServiceTreatments :
       diseases' = createDisease(diseases, detectionId, diseaseName,
                                 ServiceConfidence, treatments)
  /\ UNCHANGED <<detections, files, up, proc, seeded, now, query, users, auth>>

\* diseaseService.updateTreatmentRecommendations(diseaseId, treatments)
ServiceUpdateTreatmentRecommendations ==
  /\ \E diseaseId \in DOMAIN diseases, treatments \in ServiceTreatments :
       /\ diseases[diseaseId].treatmentRecommendations # treatments
       /\ diseases' = [diseases EXCEPT ![diseaseId].treatmentRecommendations = treatments]
  /\ UNCHANGED <<detections, files, up, proc, seeded, now, query, users, auth>>

\* the store after the seed script and one successful upload of "user",
\* with no request in flight
InitService ==
  /\ now = 0
  /\ detections = << seedDetection(1, "user", 1, 85),
                     seedDetection(2, "user", 2, 95),
                     seedDetection(3, "researcher", 3, 72),
                     createDetection(4, "user", submissionId(1), now) >>
  /\ diseases = createNested(createNested(<< >>, 1, sampleDiseases(1)), 3, sampleDiseases(3))
  /\ files = {<<"user", v, submissionId(1)>> : v \in Variants}
  /\ up = [u \in QueryUploadIds |->
             [IdleUpload EXCEPT !.pc = "done", !.userId = "user", !.hasFile = TRUE,
                                !.mimetype = "image/jpeg", !.size = MAX_FILE_SIZE,
                                !.res = 200, !.detectionId = 4]]
  /\ proc = [r \in QueryProcessIds |-> IdleProcess]
  /\ seeded = TRUE
  /\ query = IdleQuery
  /\ users = seedUsers
  /\ auth = [a \in AuthIds |-> IdleAuth]

NextService ==
  \/ Tick
  \/ \E r \in QueryProcessIds : ProcessFind(r)
  \/ \E r \in QueryProcessIds : ProcessTreatment1(r)
  \/ \E r \in QueryProcessIds : ProcessTreatment2(r)
  \/ \E r \in QueryProcessIds : ProcessUpdate(r)
  \/ \E r \in QueryProcessIds : ProcessCreateDisease(r)
  \/ ServiceCreateDisease
  \/ ServiceUpdateTreatmentRecommendations

SpecService == InitService /\ [][NextService]_vars

\* C19: every Disease row whose diseaseName is not "healthy" (compared
\* case-insensitively) has a non-empty treatmentRecommendations list, after
\* createDisease, after updateTreatmentRecommendations and after process.
C19_TreatmentsNonEmpty ==
  \A i \in DOMAIN diseases :
    ~isHealthy(diseases[i].diseaseName) => diseases[i].treatmentRecommendations # << >>

\* labels a caller may ask about: the table's keys, a label in another case,
\* and labels the table does not know
QueryLabels ==
  {"healthy", "bacterial_blight", "leaf_spot", "rust", "powdery_mildew",
   "early_blight", "late_blight", "Healthy", "Early Blight", "unknown_disease"}

\* the lists of the rows with this label (case-insensitive) whose Detection
\* has the most recent processedAt among the rows with this label; a
\* Detection that was never processed has no processedAt to compare
latestTreatments(label) ==
  LET matching == {i \in DOMAIN diseases :
                     toLowerCase(diseases[i].diseaseName) = toLowerCase(label)}
      processed == {i \in matching : detections[diseases[i].detectionId].processedAt # Null}
      among == IF processed = {} THEN matching ELSE processed
      latest == {i \in among : \A j \in among :
                   detections[diseases[j].detectionId].processedAt
                     <= detections[diseases[i].detectionId].processedAt}
  IN  {diseases[i].treatmentRecommendations : i \in latest}

\* C20: getTreatmentRecommendations(label) returns the list of the row with
\* that label (case-insensitive) whose Detection has the most recent
\* processedAt; without such a row it returns the static default for the
\* label, which is non-empty for every label (catch-all for unknown labels).
C20_LatestTreatments ==
  /\ [](\A label \in QueryLabels : getDefaultTreatmentRecommendations(label) # << >>)
  /\ [][\A r \in QueryProcessIds :
          /\ (proc[r].pc = "treatment1" /\ proc'[r].pc = "treatment2") =>
               proc'[r].t1 \in
                 IF latestTreatments(mockDiseases[1].diseaseName) = {}
                   THEN {getDefaultTreatmentRecommendations(mockDiseases[1].diseaseName)}
                   ELSE latestTreatments(mockDiseases[1].diseaseName)
          /\ (proc[r].pc = "treatment2" /\ proc'[r].pc = "update") =>
               proc'[r].t2 \in
                 IF latestTreatments(mockDiseases[2].diseaseName) = {}
                   THEN {getDefaultTreatmentRecommendations(mockDiseases[2].diseaseName)}
                   ELSE latestTreatments(mockDiseases[2].diseaseName)]_vars

\* ------------------------------------- reporting functions of the service
\* Date.toISOString().split('T')[0]: the calendar day of an instant, with
\* TicksPerDay clock ticks to the day
TicksPerDay == 2
toISODate(t) == t \div TicksPerDay

\* the instant at which the reports are asked for
ReportNow == 5

\* labels and confidences of the rows the reports run over
ReportNames == {"healthy", "Healthy", "rust"}
ReportConfidences == {80, 40}

\* the store after three uploads, two of them processed on different days,
\* before any Disease row is written
InitReport ==
  /\ now = ReportNow
  /\ detections =
       << createDetection(1, "user", 1, 0),
          [createDetection(2, "user", 2, 0) EXCEPT !.processingStatus = "completed",
                                                    !.confidenceScore = 85, !.processedAt = 2],
          [createDetection(3, "researcher", 3, 3) EXCEPT !.processingStatus = "completed",
                                                          !.confidenceScore = 85, !.processedAt = 4] >>
  /\ diseases = << >>
  /\ files = {<<"user", v, 1>> : v \in Variants} \cup {<<"user", v, 2>> : v \in Variants}
               \cup {<<"researcher", v, 3>> : v \in Variants}
  /\ up = [u \in QueryUploadIds |-> IdleUpload]
  /\ proc = [r \in QueryProcessIds |-> IdleProcess]
  /\ seeded = FALSE
  /\ query = IdleQuery
  /\ users = seedUsers
  /\ auth = [a \in AuthIds |-> IdleAuth]

\* diseaseService.createDisease(diseaseData) while reports are being served
ReportCreateDisease ==
  /\ Len(diseases) < MaxRows
  /\ \E detectionId \in DOMAIN detections, diseaseName \in ReportNames,
        confidence \in ReportConfidences :
       diseases' = createDisease(diseases, detectionId, diseaseName, confidence,
                                 <<"Apply fungicide">>)
  /\ UNCHANGED <<detections, files, up, proc, seeded, now, query, users, auth>>

\* sum of the confidences of the rows S of table dis
RECURSIVE sumConfidence(_, _)
sumConfidence(dis, S) ==
  IF S = {} THEN 0
  ELSE LET i == CHOOSE j \in S : TRUE
       IN  dis[i].confidence + sumConfidence(dis, S \ {i})

\* one group of groupBy({by: ['diseaseName'], _count, _avg}): the rows with
\* exactly this diseaseName; the mean is kept as the fraction <<sum, count>>
groupEntry(dis, name) ==
  LET S == {i \in DOMAIN dis : dis[i].diseaseName = name}
  IN  [name |-> name, count |-> Cardinality(S),
       averageConfidence |-> <<sumConfidence(dis, S), Cardinality(S)>>]

\* orderBy: {_count: {diseaseName: 'desc'}}: every order the database may
\* produce for the groups G; groups of equal count come in any order
RECURSIVE orderByCountDesc(_)
orderByCountDesc(G) ==
  IF G = {} THEN { << >> }
  ELSE UNION { { << g >> \o rest : rest \in orderByCountDesc(G \ {g}) } :
               g \in {e \in G : \A f \in G : f.count <= e.count} }

\* prisma.disease.groupBy(...)
groupBy(dis) ==
  orderByCountDesc({groupEntry(dis, dis[i].diseaseName) : i \in DOMAIN dis})

\* prisma.disease.count({where: {diseaseName: {equals: 'healthy', mode: 'insensitive'}}})
countHealthy(dis) ==
  Cardinality({i \in DOMAIN dis : toLowerCase(dis[i].diseaseName) = toLowerCase("healthy")})

\* getDiseaseStatistics, first await: prisma.disease.count()
StatisticsCount ==
  /\ query.kind = "none"
  /\ query' = [kind |-> "statistics", pc |-> "groupBy", rowsAtCall |-> Len(diseases),
               totalDetections |-> Len(diseases), healthyDetections |-> Null,
               diseaseDetections |-> Null, diseaseTypes |-> << >>]
  /\ UNCHANGED <<detections, diseases, files, up, proc, seeded, now, users, auth>>

\* getDiseaseStatistics, second await: prisma.disease.groupBy(...)
StatisticsGroupBy ==
  /\ query.kind = "statistics"
  /\ query.pc = "groupBy"
  /\ \E types \in groupBy(diseases) :
       query' = [query EXCEPT !.pc = "healthy", !.diseaseTypes = types]
  /\ UNCHANGED <<detections, diseases, files, up, proc, seeded, now, users, auth>>

\* getDiseaseStatistics, third await and return
StatisticsHealthy ==
  /\ query.kind = "statistics"
  /\ query.pc = "healthy"
  /\ query' = [query EXCEPT !.pc = "done",
                            !.healthyDetections = countHealthy(diseases),
                            !.diseaseDetections = query.totalDetections - countHealthy(diseases)]
  /\ UNCHANGED <<detections, diseases, files, up, proc, seeded, now, users, auth>>

\* the search strings a caller passes
SearchQueries == {"heal", "Rust", "t"}

\* the substrings of a lower-case label that a search string may be
substrings(s) ==
  CASE s = "healthy" -> {"", "heal", "t", "healthy"}
    [] s = "rust" -> {"", "rust", "t"}
    [] OTHER -> {"", s}

\* diseaseName: {contains: query, mode: 'insensitive'}
contains(diseaseName, q) == toLowerCase(q) \in substrings(toLowerCase(diseaseName))

\* take: 20
SEARCH_TAKE == 20

\* orderBy: {confidence: 'desc'}: every order of the row ids S the database
\* may produce; rows of equal confidence come in any order
RECURSIVE orderByConfidenceDesc(_, _)
orderByConfidenceDesc(dis, S) ==
  IF S = {} THEN { << >> }
  ELSE UNION { { << i >> \o rest : rest \in orderByConfidenceDesc(dis, S \ {i}) } :
               i \in {e \in S : \A f \in S : dis[f].confidence <= dis[e].confidence} }

\* the first n elements
take(rows, n) == SubSeq(rows, 1, IF n < Len(rows) THEN n ELSE Len(rows))

\* diseases.forEach: the Map keyed by diseaseName, in insertion order; a
\* member is {id: disease.id, confidence, processedAt: disease.detection.processedAt}
RECURSIVE forEachIntoMap(_, _, _, _)
forEachIntoMap(groups, dis, dets, ids) ==
  IF ids = << >> THEN groups
  ELSE LET row == dis[Head(ids)]
           member == [id |-> row.id, confidence |-> row.confidence,
                      processedAt |-> dets[row.detectionId].processedAt]
           at == {k \in DOMAIN groups : groups[k].name = row.diseaseName}
           next == IF at = {}
                     THEN Append(groups, [name |-> row.diseaseName,
                                          detections |-> << member >>,
                                          treatmentRecommendations |-> row.treatmentRecommendations])
                     ELSE [k \in DOMAIN groups |->
                             IF k \in at
                               THEN [groups[k] EXCEPT !.detections = Append(@, member)]
                               ELSE groups[k]]
       IN  forEachIntoMap(next, dis, dets, Tail(ids))

\* confidences.reduce((a, b) => a + b, 0)
RECURSIVE reduceSum(_)
reduceSum(members) ==
  IF members = << >> THEN 0 ELSE Head(members).confidence + reduceSum(Tail(members))

\* averageConfidence and totalDetections of a group; the quotient is kept as
\* the fraction <<sum, length>>
withAverage(g) ==
  [name |-> g.name, detections |-> g.detections,
   treatmentRecommendations |-> g.treatmentRecommendations,
   averageConfidence |-> <<reduceSum(g.detections), Len(g.detections)>>,
   totalDetections |-> Len(g.detections)]

\* b.averageConfidence - a.averageConfidence > 0, on fractions
lessAverage(a, b) ==
  a.averageConfidence[1] * b.averageConfidence[2] < b.averageConfidence[1] * a.averageConfidence[2]

\* results.sort((a, b) => b.averageConfidence - a.averageConfidence): stable
RECURSIVE sortByAverageDesc(_)
sortByAverageDesc(groups) ==
  IF groups = << >> THEN << >>
  ELSE LET g == groups[Len(groups)]
           front == sortByAverageDesc(SubSeq(groups, 1, Len(groups) - 1))
           keep == {k \in DOMAIN front : ~lessAverage(front[k], g)}
           n == Cardinality(keep)
       IN  SubSeq(front, 1, n) \o << g >> \o SubSeq(front, n + 1, Len(front))

\* searchDiseases(query): the results it may return on tables (dis, dets)
searchDiseases(dis, dets, q) ==
  { sortByAverageDesc(
      [k \in DOMAIN forEachIntoMap(<< >>, dis, dets, take(ids, SEARCH_TAKE)) |->
         withAverage(forEachIntoMap(<< >>, dis, dets, take(ids, SEARCH_TAKE))[k])]) :
      ids \in orderByConfidenceDesc(dis, {i \in DOMAIN dis : contains(dis[i].diseaseName, q)}) }

\* a call of searchDiseases
SearchDiseases ==
  /\ query.kind = "none"
  /\ \E q \in SearchQueries :
       \E results \in searchDiseases(diseases, detections, q) :
         query' = [kind |-> "search", q |-> q, results |-> results]
  /\ UNCHANGED <<detections, diseases, files, up, proc, seeded, now, users, auth>>

\* the windows a caller asks trends for
TrendDays == {1, 2}

\* a window without a beginning
startDateEpoch(t, days) == 0

\* startDate.setDate(startDate.getDate() - days)
startDate(t, days) == t - days * TicksPerDay

\* orderBy: {detection: {processedAt: 'asc'}} over row ids S that all have a
\* processedAt: one order the database may produce
RECURSIVE orderByProcessedAtAsc(_, _, _)
orderByProcessedAtAsc(dis, dets, S) ==
  IF S = {} THEN << >>
  ELSE LET i == CHOOSE e \in S : \A f \in S :
                  dets[dis[e].detectionId].processedAt <= dets[dis[f].detectionId].processedAt
       IN  << i >> \o orderByProcessedAtAsc(dis, dets, S \ {i})

\* trends.forEach: trendMap, a map from day to a map from diseaseName to count
RECURSIVE forEachIntoTrendMap(_, _, _, _)
forEachIntoTrendMap(trendMap, dis, dets, ids) ==
  IF ids = << >> THEN trendMap
  ELSE LET row == dis[Head(ids)]
           processedAt == dets[row.detectionId].processedAt
           date == toISODate(processedAt)
           dayData == IF date \in DOMAIN trendMap THEN trendMap[date] ELSE << >>
           n == IF row.diseaseName \in DOMAIN dayData THEN dayData[row.diseaseName] ELSE 0
           newDay == [name \in DOMAIN dayData \cup {row.diseaseName} |->
                        IF name = row.diseaseName THEN n + 1 ELSE dayData[name]]
           next == IF processedAt = Null THEN trendMap
                   ELSE [d \in DOMAIN trendMap \cup {date} |->
                           IF d = date THEN newDay ELSE trendMap[d]]
       IN  forEachIntoTrendMap(next, dis, dets, Tail(ids))

\* getDiseaseTrends(days) at instant t on tables (dis, dets)
getDiseaseTrends(dis, dets, t, days) ==
  forEachIntoTrendMap(<< >>, dis, dets,
    orderByProcessedAtAsc(dis, dets,
      {i \in DOMAIN dis : /\ dets[dis[i].detectionId].processedAt # Null
                          /\ dets[dis[i].detectionId].processedAt >= startDate(t, days)}))

\* a call of getDiseaseTrends
GetDiseaseTrends ==
  /\ query.kind = "none"
  /\ \E days \in TrendDays :
       query' = [kind |-> "trends", days |-> days, at |-> now,
                 data |-> getDiseaseTrends(diseases, detections, now, days)]
  /\ UNCHANGED <<detections, diseases, files, up, proc, seeded, now, users, auth>>

\* the service answering one report while rows are being inserted
NextReport ==
  \/ ReportCreateDisease
  \/ StatisticsCount
  \/ StatisticsGroupBy
  \/ StatisticsHealthy
  \/ SearchDiseases
  \/ GetDiseaseTrends

SpecReport == InitReport /\ [][NextReport]_vars

\* the rows whose label is this one, compared case-insensitively
rowsLabeled(label) ==
  {i \in DOMAIN diseases : toLowerCase(diseases[i].diseaseName) = toLowerCase(label)}

\* the statistics call returned and no row was written while it ran
QuiescentStatistics ==
  /\ query.kind = "statistics"
  /\ query.pc = "done"
  /\ query.rowsAtCall = Len(diseases)

\* C21: on a quiescent store getDiseaseStatistics reports the number of all
\* Disease rows, the number of rows labelled "healthy" in any letter case,
\* their difference, and one diseaseTypes entry per label (labels compared
\* case-insensitively) with that label's row count and mean confidence,
\* ordered by count descending.
C21_Statistics ==
  QuiescentStatistics =>
    LET types == query.diseaseTypes
    IN  /\ query.totalDetections = Len(diseases)
        /\ query.healthyDetections = Cardinality(rowsLabeled("healthy"))
        /\ query.diseaseDetections = query.totalDetections - query.healthyDetections
        /\ \A i \in DOMAIN diseases :
             Cardinality({k \in DOMAIN types :
                            toLowerCase(types[k].name) = toLowerCase(diseases[i].diseaseName)}) = 1
        /\ \A k \in DOMAIN types :
             /\ rowsLabeled(types[k].name) # {}
             /\ types[k].count = Cardinality(rowsLabeled(types[k].name))
             /\ types[k].averageConfidence[1] * Cardinality(rowsLabeled(types[k].name))
                  = sumConfidence(diseases, rowsLabeled(types[k].name)) * types[k].averageConfidence[2]
        /\ \A k \in DOMAIN types : \A l \in DOMAIN types :
             k < l => types[k].count >= types[l].count

\* the page is positions skip+1 .. skip+limit of a newest-first ordering of
\* the Detections M: it lists distinct members of M, newest first, as many as
\* M has from position skip+1 on up to limit, and each listed row stands at a
\* position its createdAt allows
isPageOf(page, M, skip, limit) ==
  LET newer(c) == Cardinality({d \in M : detections[d].createdAt > c})
      notOlder(c) == Cardinality({d \in M : detections[d].createdAt >= c})
      rest == IF Cardinality(M) > skip THEN Cardinality(M) - skip ELSE 0
  IN  /\ Len(page) = IF rest < limit THEN rest ELSE limit
      /\ \A i \in DOMAIN page : \E d \in M : page[i] = detections[d]
      /\ \A i \in DOMAIN page : \A j \in DOMAIN page : i # j => page[i] # page[j]
      /\ \A i \in DOMAIN page :
           /\ newer(page[i].createdAt) <= skip + i - 1
           /\ notOlder(page[i].createdAt) >= skip + i

\* C22: for page >= 1 and limit >= 1 the history query returns the caller's
\* Detections that match every supplied filter, newest first by createdAt; the
\* page is elements (page-1)*limit .. page*limit-1 of that ordering, total is
\* the number of all matching Detections, and pages is ceil(total / limit).
C22_HistoryPage ==
  [][query'.kind = "history" =>
       LET before == IF query.kind = "history" THEN query
                     ELSE [pc |-> "both", total |-> Null]
           M == matchingOf(query'.userId, query'.status, query'.dateFrom, query'.dateTo)
           n == pagesOf(query'.total, query'.limit)
       IN  /\ (before.pc \in {"both", "findMany"} /\ query'.pc \in {"count", "done"}
                 /\ query'.res # 500) =>
               isPageOf(query'.detections, M, (query'.page - 1) * query'.limit, query'.limit)
           /\ (before.total = Null /\ query'.total # Null) =>
               /\ query'.total = Cardinality(M)
               /\ n * query'.limit >= query'.total
               /\ (n - 1) * query'.limit < query'.total \/ (n = 0 /\ query'.total = 0)]_vars

\* the second page of one row per page was answered for an owner with two
\* Detections
C22_Witness ==
  /\ query.kind = "history"
  /\ query.pc = "done"
  /\ query.res = 200
  /\ query.page = 2
  /\ query.limit = 1
  /\ query.total = 2
  /\ Len(query.detections) = 1
  /\ pagesOf(query.total, query.limit) = 2

\* the member a search result is to carry for Disease row i: the id of the
\* owning Detection, the row's confidence, the Detection's processedAt
memberOf(i) ==
  [id |-> diseases[i].detectionId, confidence |-> diseases[i].confidence,
   processedAt |-> detections[diseases[i].detectionId].processedAt]

\* what the claim of searchDiseases says about an answer on the current tables
SearchAnswer(q, results) ==
  LET matching == {i \in DOMAIN diseases : contains(diseases[i].diseaseName, q)}
      labeled(name) == {i \in matching : diseases[i].diseaseName = name}
  IN  /\ Len(results) <= SEARCH_TAKE
      /\ \A i \in matching :
           Cardinality({k \in DOMAIN results : results[k].name = diseases[i].diseaseName}) = 1
      /\ \A k \in DOMAIN results :
           LET rows == labeled(results[k].name)
               members == results[k].detections
           IN  /\ rows # {}
               /\ Len(members) = Cardinality(rows)
               /\ \A i \in rows :
                    Cardinality({m \in DOMAIN members : members[m] = memberOf(i)})
                      = Cardinality({j \in rows : memberOf(j) = memberOf(i)})
               /\ results[k].averageConfidence[1] * Cardinality(rows)
                    = sumConfidence(diseases, rows) * results[k].averageConfidence[2]
      /\ \A k \in DOMAIN results : \A l \in DOMAIN results :
           k < l => ~lessAverage(results[k], results[l])

\* C23: searchDiseases(q) returns one group per label among the Disease rows
\* whose diseaseName contains q case-insensitively; a group carries all
\* matching rows of its label as members (owning detection id, confidence,
\* processedAt) and their mean confidence; groups are sorted by mean
\* confidence descending and at most 20 are returned.
C23_Search ==
  [][(query.kind = "none" /\ query'.kind = "search") =>
       SearchAnswer(query'.q, query'.results)]_vars

\* the Disease rows with this label whose Detection was processed on day d
\* and not before the instant `days` days ago
occurrences(d, label, days) ==
  {i \in DOMAIN diseases :
     LET p == detections[diseases[i].detectionId].processedAt
     IN  /\ diseases[i].diseaseName = label
         /\ p # Null
         /\ p \div TicksPerDay = d
         /\ p >= now - days * TicksPerDay}

\* what the claim of getDiseaseTrends says about an answer on the current tables
TrendsAnswer(days, data) ==
  LET allDays == DOMAIN data \cup 0..(now \div TicksPerDay)
      allLabels == {diseases[i].diseaseName : i \in DOMAIN diseases}
                     \cup UNION {DOMAIN data[d] : d \in DOMAIN data}
  IN  /\ \A d \in DOMAIN data : DOMAIN data[d] # {}
      /\ \A d \in allDays : \A label \in allLabels :
           IF occurrences(d, label, days) = {}
             THEN ~(d \in DOMAIN data /\ label \in DOMAIN data[d])
             ELSE /\ d \in DOMAIN data
                  /\ label \in DOMAIN data[d]
                  /\ data[d][label] = Cardinality(occurrences(d, label, days))

C25_RejectionIsValidationError ==
  \A u \in UploadIds :
    ( /\ up[u].pc = "done"
      /\ up[u].hasFile
      /\ ~validateFileType(up[u].mimetype) \/ up[u].size > MAX_FILE_SIZE )
    => up[u].res = 400

\* C26: the detectionId returned by a successful upload (the persisted
\* Detection's id) is the id in the keys of the original, processed and
\* thumbnail variants, so each variant is addressable from the owner and the
\* Detection id alone.
C26_VariantsKeyedByDetectionId ==
  \A u \in UploadIds :
    up[u].res = 200 =>
      /\ up[u].detectionId \in DOMAIN detections
      /\ detections[up[u].detectionId].imageUrl = submissionId(u)
      /\ \A v \in Variants : <<up[u].userId, v, up[u].detectionId>> \in files

\* ------------------------------------------------------------- cleanupFiles
\* cleanupFiles of uploadService.ts: builds three paths and deletes nothing
cleanupFiles(dir, userId, detectionId) == dir

\* cleanupFiles of the S3-enabled copy, local branch: fs.unlink of
\* original/<id>.* (a literal name no stored file has, the error is ignored),
\* of processed/<id>_result.jpg and of thumbnails/<id>_thumb.jpg
cleanupFilesLocal(dir, userId, detectionId) ==
  dir \ {<<userId, "processed", detectionId>>, <<userId, "thumbnails", detectionId>>}

\* a call cleanupFiles(userId, detectionId), or the same call once more; the
\* call slot keeps the arguments and the number of calls
CleanupFiles ==
  /\ \E userId \in Users, detectionId \in UploadIds :
       /\ query.kind = "none"
            \/ (query.kind = "cleanup" /\ query.calls = 1 /\ query.copy = "uploadService"
                  /\ query.userId = userId /\ query.detectionId = detectionId)
       /\ files' = cleanupFiles(files, userId, detectionId)
       /\ query' = [kind |-> "cleanup", copy |-> "uploadService", userId |-> userId,
                    detectionId |-> detectionId,
                    calls |-> IF query.kind = "none" THEN 1 ELSE 2]
  /\ UNCHANGED <<detections, diseases, up, proc, seeded, now, users, auth>>

\* the same for the S3-enabled copy
CleanupFilesLocal ==
  /\ \E userId \in Users, detectionId \in UploadIds :
       /\ query.kind = "none"
            \/ (query.kind = "cleanup" /\ query.calls = 1 /\ query.copy = "local"
                  /\ query.userId = userId /\ query.detectionId = detectionId)
       /\ files' = cleanupFilesLocal(files, userId, detectionId)
       /\ query' = [kind |-> "cleanup", copy |-> "local", userId |-> userId,
                    detectionId |-> detectionId,
                    calls |-> IF query.kind = "none" THEN 1 ELSE 2]
  /\ UNCHANGED <<detections, diseases, up, proc, seeded, now, users, auth>>

\* uploads with cleanup calls in between
NextCleanup ==
  \/ \E u \in UploadIds : UploadMulter(u)
  \/ \E u \in UploadIds : UploadLimit(u)
  \/ \E u \in UploadIds : UploadProcessImage(u)
  \/ \E u \in UploadIds : UploadCreateThumbnail(u)
  \/ \E u \in UploadIds : UploadCreateDetection(u)
  \/ CleanupFiles
  \/ CleanupFilesLocal

SpecCleanup == Init /\ [][NextCleanup]_vars

\* C27: cleanupFiles(owner, submissionId) removes every stored variant of the
\* submission, returns normally whether or not the variants exist, and a
\* second call leaves storage as the first left it, with none of the three
\* variants present.
C27_CleanupIdempotent ==
  [][(query'.kind = "cleanup" /\ query' # query) =>
       /\ \A v \in Variants : <<query'.userId, v, query'.detectionId>> \notin files'
       /\ \A f \in files \ files' : f[1] = query'.userId /\ f[3] = query'.detectionId
       /\ files' \subseteq files
       /\ query'.calls = 2 => files' = files]_vars

\* sum of the counts of the entries of a diseaseTypes list
RECURSIVE sumCounts(_)
sumCounts(types) ==
  IF types = << >> THEN 0 ELSE Head(types).count + sumCounts(Tail(types))

\* C28: getDiseaseStatistics run concurrently with Disease inserts still
\* reports mutually consistent counts: diseaseDetections is not negative,
\* healthyDetections is at most totalDetections, and the diseaseTypes counts
\* sum to totalDetections.
C28_StatisticsConsistent ==
  (query.kind = "statistics" /\ query.pc = "done") =>
    /\ query.diseaseDetections >= 0
    /\ query.healthyDetections <= query.totalDetections
    /\ sumCounts(query.diseaseTypes) = query.totalDetections

\* ------------------------------- GET /upload/files/:userId/:folder/:filename
\* who may send the request: the route carries no authenticateToken, so a
\* caller is a user or nobody in particular
Callers == Users \cup {"anonymous"}

\* the :folder values a request may carry
Folders == Variants \cup {"profile"}

allowedFolders == {"original", "processed", "thumbnails"}

\* the handler: 400 for a folder outside allowedFolders, otherwise
\* res.sendFile of uploads/<userId>/<folder>/<filename>, 404 when it is absent
ServeFile ==
  /\ query.kind = "none"
  /\ \E caller \in Callers, userId \in Users, folder \in Folders, filename \in UploadIds :
       LET req == [kind |-> "files", caller |-> caller, userId |-> userId,
                   folder |-> folder, filename |-> filename]
       IN  query' =
             IF folder \notin allowedFolders
               THEN req @@ [res |-> 400, sent |-> {}]
             ELSE IF <<userId, folder, filename>> \in files
               THEN req @@ [res |-> 200, sent |-> {<<userId, folder, filename>>}]
             ELSE req @@ [res |-> 404, sent |-> {}]
  /\ UNCHANGED <<detections, diseases, files, up, proc, seeded, now, users, auth>>

\* uploads and file requests
NextFiles ==
  \/ \E u \in UploadIds : UploadMulter(u)
  \/ \E u \in UploadIds : UploadLimit(u)
  \/ \E u \in UploadIds : UploadProcessImage(u)
  \/ \E u \in UploadIds : UploadCreateThumbnail(u)
  \/ \E u \in UploadIds : UploadCreateDetection(u)
  \/ ServeFile

SpecFiles == Init /\ [][NextFiles]_vars

\* C29: the file-serving route returns an artifact only when the folder is
\* original, processed or thumbnails (any other folder is answered 400 and
\* nothing is sent) and only to the authenticated owner named in the path.
C29_FilesOwnerOnly ==
  query.kind = "files" =>
    /\ query.folder \notin {"original", "processed", "thumbnails"} =>
         (query.res = 400 /\ query.sent = {})
    /\ \A f \in query.sent :
         /\ f = <<query.userId, query.folder, query.filename>>
         /\ query.folder \in {"original", "processed", "thumbnails"}
         /\ query.caller = query.userId

\* ----------------------------------------------------- AuthService (users)
\* the emails a call may carry: one that is taken at the start, one that is not
Emails == {"user@example.com", "new@example.com"}

\* no constraint on the column
uniqueViolationNever(table, email, exceptId) == FALSE

\* CREATE UNIQUE INDEX "users_email_key" ON "users"("email"): a write of this
\* email to the row exceptId (Null: a new row) is refused when another row
\* holds the email
uniqueViolation(table, email, exceptId) ==
  \E i \in DOMAIN table : table[i].email = email /\ table[i].id # exceptId

\* the call throws DatabaseError(message); `logged` is what console.error
\* printed before the error was wrapped
Thrown(call, message, logged) ==
  [call EXCEPT !.pc = "done", !.res = message, !.logged = logged]

\* registerUser: await prisma.user.findUnique({where: {email}})
RegisterFindUnique(a) ==
  /\ auth[a].pc = "idle"
  /\ \A b \in DOMAIN auth : b < a => auth[b].pc # "idle"
  /\ \E email \in Emails, ok \in BOOLEAN :
       LET call == [auth[a] EXCEPT !.op = "registerUser", !.email = email]
       IN  auth' = [auth EXCEPT ![a] =
             IF ~ok THEN Thrown(call, "Failed to create user", "error")
             ELSE IF \E i \in DOMAIN users : users[i].email = email
               THEN Thrown(call, "User with this email already exists", "")
             ELSE [call EXCEPT !.pc = "hashPassword"]]
  /\ UNCHANGED <<detections, diseases, files, up, proc, seeded, now, query, users>>

\* registerUser: await this.hashPassword(userData.password)
RegisterHashPassword(a) ==
  /\ auth[a].pc = "hashPassword"
  /\ auth' = [auth EXCEPT ![a].pc = "create"]
  /\ UNCHANGED <<detections, diseases, files, up, proc, seeded, now, query, users>>

\* registerUser: await prisma.user.create({data: {email, ...}}) and return
RegisterCreate(a) ==
  /\ auth[a].pc = "create"
  /\ \E ok \in BOOLEAN :
       IF uniqueViolation(users, auth[a].email, Null)
         THEN /\ users' = users
              /\ auth' = [auth EXCEPT ![a] = Thrown(auth[a], "Failed to create user", "P2002")]
       ELSE IF ~ok
         THEN /\ users' = users
              /\ auth' = [auth EXCEPT ![a] = Thrown(auth[a], "Failed to create user", "error")]
       ELSE /\ users' = Append(users, [id |-> Len(users) + 1, email |-> auth[a].email])
            /\ auth' = [auth EXCEPT ![a].pc = "done", ![a].res = "created",
                                    ![a].userId = Len(users) + 1]
  /\ UNCHANGED <<detections, diseases, files, up, proc, seeded, now, query>>

\* updateUserProfile with updates.email:
\* await prisma.user.findFirst({where: {email, NOT: {id: userId}}})
UpdateFindFirst(a) ==
  /\ auth[a].pc = "idle"
  /\ \A b \in DOMAIN auth : b < a => auth[b].pc # "idle"
  /\ \E userId \in DOMAIN seedUsers, email \in Emails, ok \in BOOLEAN :
       LET call == [auth[a] EXCEPT !.op = "updateUserProfile", !.userId = userId,
                                   !.email = email]
       IN  auth' = [auth EXCEPT ![a] =
             IF ~ok THEN Thrown(call, "Failed to update profile", "error")
             ELSE IF \E i \in DOMAIN users : users[i].email = email /\ users[i].id # userId
               THEN Thrown(call, "Email already in use", "")
             ELSE [call EXCEPT !.pc = "update"]]
  /\ UNCHANGED <<detections, diseases, files, up, proc, seeded, now, query, users>>

\* updateUserProfile: await prisma.user.update({where: {id}, data: updates})
UpdateUpdate(a) ==
  /\ auth[a].pc = "update"
  /\ \E ok \in BOOLEAN :
       IF uniqueViolation(users, auth[a].email, auth[a].userId)
         THEN /\ users' = users
              /\ auth' = [auth EXCEPT ![a] = Thrown(auth[a], "Failed to update profile", "P2002")]
       ELSE IF ~ok
         THEN /\ users' = users
              /\ auth' = [auth EXCEPT ![a] = Thrown(auth[a], "Failed to update profile", "error")]
       ELSE /\ users' = [users EXCEPT ![auth[a].userId].email = auth[a].email]
            /\ auth' = [auth EXCEPT ![a].pc = "done", ![a].res = "updated"]
  /\ UNCHANGED <<detections, diseases, files, up, proc, seeded, now, query>>

NextAuth ==
  \/ \E a \in AuthIds : RegisterFindUnique(a)
  \/ \E a \in AuthIds : RegisterHashPassword(a)
  \/ \E a \in AuthIds : RegisterCreate(a)
  \/ \E a \in AuthIds : UpdateFindFirst(a)
  \/ \E a \in AuthIds : UpdateUpdate(a)

SpecAuth == Init /\ [][NextAuth]_vars

\* C30: after any interleaving of registerUser and updateUserProfile calls no
\* two user records share an email; a registration either creates exactly one
\* record with its email or fails with a DatabaseError and leaves the table as
\* it was, so of two concurrent registrations with the same email at most one
\* creates a user.
C30_UniqueEmail ==
  /\ [](\A i \in DOMAIN users : \A j \in DOMAIN users :
          i # j => users[i].email # users[j].email)
  /\ [][\A a \in AuthIds :
          (auth[a].pc # "done" /\ auth'[a].pc = "done" /\ auth'[a].op = "registerUser") =>
            \/ /\ auth'[a].res = "created"
               /\ users' = Append(users, [id |-> Len(users) + 1, email |-> auth'[a].email])
            \/ /\ auth'[a].res \in {"User with this email already exists",
                                    "Failed to create user"}
               /\ users' = users]_vars

\* two registrations with the same free email both passed the existence
\* check; one created the user, the other was refused by the unique index
C30_Witness ==
  \E a \in AuthIds : \E b \in AuthIds :
    /\ auth[a].op = "registerUser" /\ auth[b].op = "registerUser"
    /\ auth[a].email = auth[b].email
    /\ auth[a].res = "created"
    /\ auth[b].pc = "done"
    /\ auth[b].res = "Failed to create user"
    /\ auth[b].logged = "P2002"
    /\ Cardinality({i \in DOMAIN users : users[i].email = auth[a].email}) = 1
====
